---------------------------- MODULE Spec2Model ----------------------------
(***************************************************************************)
(* Model of src/main.py (bass_taber): the low-pass pre-filter, the         *)
(* frequency-to-MIDI normalisation, the string/fret scan, the tab buffer   *)
(* construction loop and the width segmentation of main().                 *)
(*                                                                         *)
(* Text is a sequence of one-character strings.  MIDI note numbers are     *)
(* kept in half-semitone units (m2 = 2 * m) so that round()'s tie rule is  *)
(* exercised.  String indexes are the 0-based indexes of the source.       *)
(***************************************************************************)
EXTENDS Integers, Sequences, FiniteSets, TLC

VARIABLES
    freqs,          \* raw frequency estimates, one per onset (piptrack output)
    pitches,        \* the list `pitches`
    i,              \* number of iterations of the build loop already run
    tab_chars,      \* the 4 string buffers, indexed 0..3
    assigned,       \* per processed step: <<>> or <<string, fret>> (the loop's locals)
    max_width,      \* args.width
    start,          \* next value of the segmentation loop variable
    output_lines,   \* the list `output_lines`
    output_content, \* the joined text
    output_file,    \* content of the written file, or NotWritten
    pc,             \* position of main()
    raised,         \* the uncaught exception that ended main(), or NoException
    n_samples,      \* len(signal) of low_pass_filter
    sr,             \* sample rate
    cutoff2,        \* 2 * cutoff (half-Hz units)
    fft             \* the spectrum after masking: one "coef"/"zero" mark per bin

vars == <<freqs, pitches, i, tab_chars, assigned, max_width, start, output_lines,
          output_content, output_file, pc, raised, n_samples, sr, cutoff2, fft>>

pipeVars == <<freqs, pitches, i, tab_chars, assigned, max_width, start,
              output_lines, output_content, output_file, pc, raised>>

filterVars == <<n_samples, sr, cutoff2, fft>>

---------------------------------------------------------------------------
(* Bounds of the model *)

MaxSteps == 3
MapSteps == 1
MaxWidth == 4
Margin == 2
MaxSamples == 6
MaxRate == 4

(* Program constants *)

spacing == 3
MaxFret == 24
DefaultWidth == 200
DefaultCutoff == 200
ConcertA == 440
ConcertAMidi == 69

---------------------------------------------------------------------------
(* Values *)

NotWritten == <<"<no file>">>
NoException == "none"

PyNone == [kind |-> "none", v |-> 0]
NaN == [kind |-> "nan", v |-> 0]
PosInf == [kind |-> "inf", v |-> 0]
Num(m2) == [kind |-> "num", v |-> m2]

\* string_notes = [40, 45, 50, 55], indexed from 0
string_notes == [s \in 0..3 |-> 40 + 5 * s]

Min(a, b) == IF a < b THEN a ELSE b
Abs(a) == IF a < 0 THEN 0 - a ELSE a

RECURSIVE Repeat(_, _)
Repeat(c, n) == IF n <= 0 THEN <<>> ELSE <<c>> \o Repeat(c, n - 1)

\* seq[a:b] for 0 <= a, 0 <= b (Python clamps both to len(seq))
PySlice(seq, a, b) == SubSeq(seq, Min(a, Len(seq)) + 1, Min(b, Len(seq)))

\* seq[a:]
PySliceFrom(seq, a) == PySlice(seq, a, Len(seq))

DigitChar(d) == <<"0", "1", "2", "3", "4", "5", "6", "7", "8", "9">>[d + 1]

\* str(n) for n >= 0
RECURSIVE PyStr(_)
PyStr(n) == IF n < 10 THEN <<DigitChar(n)>> ELSE PyStr(n \div 10) \o <<DigitChar(n % 10)>>

LjustNoPad(str, width, fill) == str

\* str.ljust(width, fill)
Ljust(str, width, fill) == str \o Repeat(fill, width - Len(str))

\* round(x) for x = x2 / 2: ties go to the even integer
PyRound(x2) ==
    IF x2 % 2 = 0 THEN x2 \div 2
    ELSE LET lo == (x2 - 1) \div 2 IN IF lo % 2 = 0 THEN lo ELSE lo + 1

FretInRangeOffByOne(fret_candidate) == 0 <= fret_candidate /\ fret_candidate <= MaxFret + 1

\* 0 <= fret_candidate <= 24
FretInRange(fret_candidate) == 0 <= fret_candidate /\ fret_candidate <= MaxFret

ScanOrderForward(s) == string_notes[s]

\* the s-th element of reversed(string_notes)
ScanOrder(s) == string_notes[3 - s]

\* the scan `for s, open_note in enumerate(reversed(string_notes))` from position s on
RECURSIVE FindStringFret(_, _)
FindStringFret(m2, s) ==
    IF s > 3 THEN <<>>
    ELSE LET open_note == ScanOrder(s)
             fret_candidate == PyRound(m2 - 2 * open_note)
         IN IF FretInRange(fret_candidate)
            THEN <<4 - 1 - s, fret_candidate>>
            ELSE FindStringFret(m2, s + 1)

PosUnscaled(k) == k

\* pos = i * spacing
Pos(k) == k * spacing

\* tab_chars[string][:pos] + fret_str + tab_chars[string][pos + spacing:]
WriteFret(buf, k, fret) ==
    LET fret_str == Ljust(PyStr(fret), spacing, "-")
        pos == Pos(k)
    IN PySlice(buf, 0, pos) \o fret_str \o PySliceFrom(buf, pos + spacing)


Labels == <<<<"G", "|">>, <<"D", "|">>, <<"A", "|">>, <<"E", "|">>>>

SliceEndShort(from) == from + max_width - 1

\* end = start + max_width
SliceEnd(from) == from + max_width

\* segment_lines = ['G|', 'D|', 'A|', 'E|']; segment_lines[s] += tab_chars[s][start:end]
SegmentLines(from) ==
    [s \in 1..4 |-> Labels[s] \o PySlice(tab_chars[s - 1], from, SliceEnd(from))]

\* '\n'.join(lines)
RECURSIVE PyJoin(_)
PyJoin(lines) ==
    IF Len(lines) = 0 THEN <<>>
    ELSE IF Len(lines) = 1 THEN lines[1]
    ELSE lines[1] \o <<"\n">> \o PyJoin(Tail(lines))

\* log2(hz / 440) for hz an exact number of octaves from 440
RECURSIVE Log2Ratio(_)
Log2Ratio(hz) ==
    IF hz = ConcertA THEN 0
    ELSE IF hz > ConcertA THEN Log2Ratio(hz \div 2) + 1
    ELSE Log2Ratio(hz * 2) - 1

\* librosa.hz_to_midi(frequency) = 12 * (log2(f) - log2(440)) + 69, in IEEE arithmetic:
\* log2 of a negative number is nan, log2(inf) is inf
hz_to_midi(frequency) ==
    IF frequency.kind = "neg" THEN NaN
    ELSE IF frequency.kind = "inf" THEN PosInf
    ELSE Num(2 * (12 * Log2Ratio(frequency.hz) + ConcertAMidi))

\* frequency == 0 or np.isnan(frequency)
DetectionFailed(frequency) == frequency.kind \in {"zero", "nan"}

\* pitches.append(None) / pitches.append(hz_to_midi(frequency))
NormalizedPitch(frequency) ==
    IF DetectionFailed(frequency) THEN PyNone ELSE hz_to_midi(frequency)

FftFreqUnsigned(k, n) == k

\* n * np.fft.fftfreq(n)[k]: the signed bin index
FftFreqIndex(k, n) == IF k <= (n - 1) \div 2 THEN k ELSE k - n

\* cutoff_idx[k] = np.abs(frequencies[k] * sr) > cutoff, with frequencies[k] = index / n
CutoffIdx(k, n, rate, cut2) == 2 * Abs(FftFreqIndex(k, n)) * rate > cut2 * n

---------------------------------------------------------------------------
(* Input domains *)

\* pitch values of the rendering runs: none, 39 (below every string), 40 (open E),
\* 45 (open A), 55 (open G), 67 (a two-digit fret)
RenderPitches == {PyNone, Num(78), Num(80), Num(90), Num(110), Num(134)}

\* every half semitone from Margin below the open E to Margin above fret 24 of G
MapPitches ==
    {PyNone} \cup
    {Num(m2) : m2 \in (2 * (string_notes[0] - Margin)) .. (2 * (string_notes[3] + MaxFret + Margin))}

RawEstimates ==
    {[kind |-> k, hz |-> 0] : k \in {"zero", "nan", "neg", "inf"}} \cup
    {[kind |-> "pos", hz |-> h] : h \in {55, 110, 220, 440, 880}}

Widths == (-1 .. MaxWidth) \cup {DefaultWidth}

SeqsUpTo(S, n) == UNION {[1..k -> S] : k \in 0..n}

EmptyTab == [s \in 0..3 |-> <<>>]

FilterIdle ==
    /\ n_samples = 0
    /\ sr = 0
    /\ cutoff2 = 0
    /\ fft = <<>>

PipeIdle ==
    /\ freqs = <<>>
    /\ pitches = <<>>
    /\ i = 0
    /\ tab_chars = EmptyTab
    /\ assigned = <<>>
    /\ max_width = DefaultWidth
    /\ start = 0
    /\ output_lines = <<>>
    /\ output_content = <<>>
    /\ output_file = NotWritten
    /\ pc = "idle"
    /\ raised = NoException

PipeStart(ps, w, at) ==
    /\ freqs = <<>>
    /\ pitches = ps
    /\ i = 0
    /\ tab_chars = EmptyTab
    /\ assigned = <<>>
    /\ max_width = w
    /\ start = 0
    /\ output_lines = <<>>
    /\ output_content = <<>>
    /\ output_file = NotWritten
    /\ pc = at
    /\ raised = NoException

\* main() at line 107 with an arbitrary pitch list and --width
Init ==
    /\ \E ps \in SeqsUpTo(RenderPitches, MaxSteps), w \in Widths : PipeStart(ps, w, "build")
    /\ FilterIdle

\* main() at line 107 with pitch lists over the whole playable range
InitMap ==
    /\ \E ps \in SeqsUpTo(MapPitches, MapSteps) : PipeStart(ps, DefaultWidth, "build")
    /\ FilterIdle

\* main() at line 86, before the first onset
InitNorm ==
    /\ \E w \in {2, DefaultWidth} : PipeStart(<<>>, w, "estimate")
    /\ FilterIdle

\* low_pass_filter called on a signal of n_samples >= 1 samples
InitFilter ==
    /\ PipeIdle
    /\ n_samples \in 1..MaxSamples
    /\ sr \in (1..MaxRate) \cup {2 * DefaultCutoff, 44100}
    /\ cutoff2 \in (0..(2 * MaxRate)) \cup {2 * DefaultCutoff, 44100}
    /\ fft = <<>>

---------------------------------------------------------------------------
(* Operations *)

\* one iteration of `for onset in onset_frames` (lines 87-105)
EstimatePitch ==
    /\ pc = "estimate"
    /\ Len(pitches) < MaxSteps
    /\ \E frequency \in RawEstimates :
          /\ freqs' = Append(freqs, frequency)
          /\ pitches' = Append(pitches, NormalizedPitch(frequency))
    /\ UNCHANGED <<i, tab_chars, assigned, max_width, start, output_lines,
                   output_content, output_file, pc, raised>>
    /\ UNCHANGED filterVars

\* the onset loop ends (line 107)
EstimateDone ==
    /\ pc = "estimate"
    /\ pc' = "build"
    /\ UNCHANGED <<freqs, pitches, i, tab_chars, assigned, max_width, start,
                   output_lines, output_content, output_file, raised>>
    /\ UNCHANGED filterVars

\* one iteration of `for i, midi_note in enumerate(pitches)` (lines 116-138)
BuildStep ==
    /\ pc = "build"
    /\ i < Len(pitches)
    /\ LET midi_note == pitches[i + 1]
           appended == [s \in 0..3 |-> tab_chars[s] \o Repeat("-", spacing)]
           found == FindStringFret(midi_note.v, 0)
       IN IF midi_note.kind = "none"
          THEN /\ tab_chars' = appended
               /\ assigned' = Append(assigned, <<>>)
               /\ i' = i + 1
               /\ UNCHANGED <<pc, raised>>
          ELSE IF midi_note.kind \in {"nan", "inf"}
          THEN \* int(round(nan)) raises ValueError, int(round(inf)) OverflowError
               /\ tab_chars' = appended
               /\ raised' = IF midi_note.kind = "nan" THEN "ValueError" ELSE "OverflowError"
               /\ pc' = "crashed"
               /\ UNCHANGED <<assigned, i>>
          ELSE /\ tab_chars' = IF found = <<>> THEN appended
                               ELSE [appended EXCEPT ![found[1]] = WriteFret(@, i, found[2])]
               /\ assigned' = Append(assigned, found)
               /\ i' = i + 1
               /\ UNCHANGED <<pc, raised>>
    /\ UNCHANGED <<freqs, pitches, max_width, start, output_lines, output_content,
                   output_file>>
    /\ UNCHANGED filterVars

\* the build loop ends; range(0, total_length, max_width) is created (lines 141-144)
BuildDone ==
    /\ pc = "build"
    /\ i = Len(pitches)
    /\ IF max_width = 0
       THEN \* range() arg 3 must not be zero
            /\ pc' = "crashed"
            /\ raised' = "ValueError"
       ELSE /\ pc' = "split"
            /\ UNCHANGED raised
    /\ start' = 0
    /\ output_lines' = <<>>
    /\ UNCHANGED <<freqs, pitches, i, tab_chars, assigned, max_width, output_content,
                   output_file>>
    /\ UNCHANGED filterVars

\* whether range(0, total_length, max_width) still yields `start`
RangeHasNext == max_width > 0 /\ start < Len(tab_chars[0])

\* one iteration of `for start in range(0, total_length, max_width)` (lines 144-153)
Segment ==
    /\ pc = "split"
    /\ RangeHasNext
    /\ output_lines' = output_lines \o SegmentLines(start) \o << <<>> >>
    /\ start' = start + max_width
    /\ UNCHANGED <<freqs, pitches, i, tab_chars, assigned, max_width, output_content,
                   output_file, pc, raised>>
    /\ UNCHANGED filterVars

\* output_content = '\n'.join(output_lines) (line 156)
Join ==
    /\ pc = "split"
    /\ ~RangeHasNext
    /\ output_content' = PyJoin(output_lines)
    /\ pc' = "write"
    /\ UNCHANGED <<freqs, pitches, i, tab_chars, assigned, max_width, start,
                   output_lines, output_file, raised>>
    /\ UNCHANGED filterVars

\* the file is written (lines 163-166)
WriteFile ==
    /\ pc = "write"
    /\ output_file' = output_content
    /\ pc' = "done"
    /\ UNCHANGED <<freqs, pitches, i, tab_chars, assigned, max_width, start,
                   output_lines, output_content, raised>>
    /\ UNCHANGED filterVars

\* open() fails: the error is printed and sys.exit(1) ends the run (lines 167-169)
WriteFileFails ==
    /\ pc = "write"
    /\ pc' = "crashed"
    /\ raised' = "SystemExit"
    /\ UNCHANGED <<freqs, pitches, i, tab_chars, assigned, max_width, start,
                   output_lines, output_content, output_file>>
    /\ UNCHANGED filterVars

\* low_pass_filter(signal, sr, cutoff) (lines 67-73): the bins of cutoff_idx are zeroed
LowPassFilter ==
    /\ fft = <<>>
    /\ n_samples >= 1
    /\ fft' = [b \in 1..n_samples |->
                  IF CutoffIdx(b - 1, n_samples, sr, cutoff2) THEN "zero" ELSE "coef"]
    /\ UNCHANGED <<n_samples, sr, cutoff2>>
    /\ UNCHANGED pipeVars

Next ==
    \/ BuildStep
    \/ BuildDone
    \/ Segment
    \/ Join
    \/ WriteFile
    \/ WriteFileFails

NextNorm ==
    \/ EstimatePitch
    \/ EstimateDone
    \/ Next

NextFilter == LowPassFilter

Spec == Init /\ [][Next]_vars

SpecMap == InitMap /\ [][Next]_vars

SpecNorm == InitNorm /\ [][NextNorm]_vars

SpecFilter == InitFilter /\ [][NextFilter]_vars

---------------------------------------------------------------------------
(* Vocabulary of the properties *)

Dashes == <<"-", "-", "-">>

\* the name of the string with index s: E1 = 40, A1 = 45, D2 = 50, G2 = 55
StringName(s) == <<"E", "A", "D", "G">>[s + 1]

\* the fret token of a slot: the decimal digits, left-justified, padded with '-'
TokenOf(f) ==
    IF f < 10 THEN <<DigitChar(f), "-", "-">>
    ELSE <<DigitChar(f \div 10), DigitChar(f % 10), "-">>

\* the columns of step k (counted from 0) in a buffer
SlotOf(buf, k) == PySlice(buf, k * 3, k * 3 + 3)

IsLabelled(line, name) == Len(line) >= 2 /\ line[1] = name /\ line[2] = "|"

\* the lines labelled `name`, labels stripped, joined in segment order
RECURSIVE LabelledBuffer(_, _)
LabelledBuffer(lines, name) ==
    IF lines = <<>> THEN <<>>
    ELSE (IF IsLabelled(Head(lines), name) THEN PySliceFrom(Head(lines), 2) ELSE <<>>)
         \o LabelledBuffer(Tail(lines), name)

\* the frets a string can play for the note m2 / 2
PlayableOn(m2, s) ==
    LET f == PyRound(m2 - 2 * string_notes[s]) IN 0 <= f /\ f <= 24

CeilDiv(a, b) == (a + b - 1) \div b

Finished == pc \in {"write", "done"} \/ (pc = "crashed" /\ raised = "SystemExit")

---------------------------------------------------------------------------
(* C1: in the written tablature (max_width > 0) the fret token of a step     *)
(* assigned to a string stands on the line labelled with that string's name  *)
(* and the other three labelled lines hold "---" at that step; the input     *)
(* [55.0, None, 45.0] renders "G|0--------" and "A|------0--", with the D    *)
(* and E lines all dashes.                                                   *)
C1_TokenOnLineNamedAfterString ==
    (pc = "done" /\ max_width > 0) =>
        /\ \A k \in 1..Len(assigned) : \A s \in 0..3 :
              SlotOf(LabelledBuffer(output_lines, StringName(s)), k - 1) =
                  IF assigned[k] # <<>> /\ assigned[k][1] = s
                  THEN TokenOf(assigned[k][2]) ELSE Dashes
        /\ (pitches = <<Num(110), PyNone, Num(90)>> /\ max_width >= 9) =>
              /\ output_lines[1] = <<"G", "|", "0", "-", "-", "-", "-", "-", "-", "-", "-">>
              /\ output_lines[2] = <<"D", "|">> \o Repeat("-", 9)
              /\ output_lines[3] = <<"A", "|", "-", "-", "-", "-", "-", "-", "0", "-", "-">>
              /\ output_lines[4] = <<"E", "|">> \o Repeat("-", 9)

(* C2: every MIDI note m in [40, 79] gets a non-silent assignment, on the    *)
(* highest-pitched string whose open note o has 0 <= round(m - o) <= 24,     *)
(* with fret round(m - o); m = 55.0 gives string G (open 55), fret 0.        *)
C2_HighestPlayableString ==
    \A k \in 1..Len(assigned) :
        (pitches[k].kind = "num" /\ 80 <= pitches[k].v /\ pitches[k].v <= 158) =>
            /\ assigned[k] # <<>>
            /\ LET s == assigned[k][1]
                   m2 == pitches[k].v
               IN /\ s \in 0..3
                  /\ PlayableOn(m2, s)
                  /\ \A u \in 0..3 : PlayableOn(m2, u) => string_notes[u] <= string_notes[s]
                  /\ assigned[k][2] = PyRound(m2 - 2 * string_notes[s])
            /\ pitches[k].v = 110 => (assigned[k] = <<3, 0>> /\ string_notes[3] = 55)

\* the open G, and a note three strings can play, have been mapped
C2_Witness ==
    /\ Len(assigned) = 1
    /\ pitches[1] \in {Num(110), Num(120)}
    /\ assigned[1][1] = 3
    /\ pc = "done"

(* C3: every assignment is silent or a (string, fret) pair with string in    *)
(* 0..3 and fret in 0..24; a step is silent exactly when its pitch is none   *)
(* or no open note o of 55, 50, 45, 40 has 0 <= round(m - o) <= 24 (as for   *)
(* m = 39.0); an unmappable note raises no error: the loop goes on.          *)
C3_AssignmentInRangeOrSilent ==
    /\ Len(assigned) = i
    /\ raised \notin {"ValueError", "OverflowError"}
    /\ (pc # "build") => i = Len(pitches)
    /\ \A k \in 1..Len(assigned) :
          LET a == assigned[k]
              unmappable == \A o \in {55, 50, 45, 40} :
                               LET f == PyRound(pitches[k].v - 2 * o) IN f < 0 \/ f > 24
          IN /\ a = <<>> \/ (Len(a) = 2 /\ a[1] \in 0..3 /\ a[2] \in 0..24)
             /\ (a = <<>>) <=> (pitches[k].kind = "none" \/ unmappable)
             /\ pitches[k] = Num(78) => a = <<>>

\* the unmappable notes 39.0 and 80.0 were processed, left silent, and the run ended
C3_Witness ==
    /\ pc = "done"
    /\ Len(pitches) = 1
    /\ pitches[1] \in {Num(78), Num(160)}
    /\ assigned = << <<>> >>

IsDigit(c) == c \in {"0", "1", "2", "3", "4", "5", "6", "7", "8", "9"}

DigitValue(c) == CHOOSE d \in 0..9 : DigitChar(d) = c

\* a line's content cut into spacing-wide fields
RECURSIVE FieldsOf(_)
FieldsOf(content) ==
    IF content = <<>> THEN <<>>
    ELSE <<PySlice(content, 0, 3)>> \o FieldsOf(PySliceFrom(content, 3))

\* the fields of the lines labelled `name`, in segment order
RECURSIVE LabelledFields(_, _)
LabelledFields(lines, name) ==
    IF lines = <<>> THEN <<>>
    ELSE (IF IsLabelled(Head(lines), name) THEN FieldsOf(PySliceFrom(Head(lines), 2)) ELSE <<>>)
         \o LabelledFields(Tail(lines), name)

\* the number written by a field's leading digits
RECURSIVE ReadDigits(_, _)
ReadDigits(field, acc) ==
    IF field = <<>> \/ ~IsDigit(Head(field)) THEN acc
    ELSE ReadDigits(Tail(field), 10 * acc + DigitValue(Head(field)))

\* the assignment sequence read back from the labelled lines
Reparsed ==
    LET F == [s \in 0..3 |-> LabelledFields(output_lines, StringName(s))]
    IN [k \in 1..Len(F[3]) |->
           LET S == {s \in 0..3 : k <= Len(F[s]) /\ F[s][k] # <<>> /\ IsDigit(F[s][k][1])}
           IN IF S = {} THEN <<>>
              ELSE LET s == CHOOSE u \in S : TRUE IN <<s, ReadDigits(F[s][k], 0)>>]

(* C4: for every max_width > 0, re-parsing the written text (labels          *)
(* stripped, each labelled line cut into spacing-wide fields, a field's      *)
(* digits read as the fret on the string the label names) gives back the     *)
(* sequence of silent / (string, fret) assignments.                          *)
C4_RoundTrip == (pc = "done" /\ max_width > 0) => Reparsed = assigned

(* C5: with max_width <= 0 the run is rejected: it never completes and no    *)
(* output file is written.                                                   *)
C5_NonPositiveWidthRejected ==
    max_width <= 0 => (pc # "done" /\ output_file = NotWritten)

(* C6: a raw estimate that is zero, negative, NaN or infinite becomes none   *)
(* at its own step, and no such estimate ends the run with an error in the   *)
(* conversion, the fret mapping or the rendering.                            *)
C6_DegenerateEstimateBecomesNone ==
    /\ \A k \in 1..Len(pitches) :
          freqs[k].kind \in {"zero", "neg", "nan", "inf"} => pitches[k] = PyNone
    /\ raised \notin {"ValueError", "OverflowError"}

(* C7: for N >= 1, sr > 0 and cutoff >= sr / 2 the filter zeroes no bin: no  *)
(* bin k has |k_signed / N * sr| > cutoff, and the masked spectrum has the   *)
(* N bins of the input's transform, all kept.                                *)
C7_NyquistCutoffKeepsEveryBin ==
    (fft # <<>> /\ cutoff2 >= sr) =>
        /\ Len(fft) = n_samples
        /\ \A b \in 1..n_samples : fft[b] = "coef"

\* the filter ran with the cutoff exactly at Nyquist on a signal that has a Nyquist bin
C7_Witness ==
    /\ fft # <<>>
    /\ cutoff2 = sr
    /\ n_samples = 4
    /\ sr = 3

(* C8: for max_width > 0 the renderer emits ceil(L / max_width) segments,    *)
(* each four lines prefixed G|, D|, A|, E| in that order and one empty line; *)
(* every window but the last carries max_width characters, the last 1 to     *)
(* max_width; a line's windows joined in order give back its buffer; an      *)
(* empty pitch sequence gives no segments and empty text.                    *)
C8_SegmentsCoverBuffers ==
    (Finished /\ max_width > 0) =>
        LET L == Len(tab_chars[0])
            n == CeilDiv(L, max_width)
        IN /\ Len(output_lines) = 5 * n
           /\ \A j \in 0..(n - 1) :
                 /\ \A s \in 1..4 :
                       LET line == output_lines[5 * j + s]
                       IN /\ Len(line) >= 2
                          /\ SubSeq(line, 1, 2) = Labels[s]
                          /\ IF j < n - 1 THEN Len(line) - 2 = max_width
                             ELSE 1 <= Len(line) - 2 /\ Len(line) - 2 <= max_width
                 /\ output_lines[5 * j + 5] = <<>>
           /\ \A s \in 1..4 :
                 LabelledBuffer(output_lines, Labels[s][1]) = tab_chars[s - 1]
           /\ pitches = <<>> => (output_lines = <<>> /\ output_content = <<>>)

\* three steps were split into five windows, the last one a single column wide
C8_Witness ==
    /\ pc = "done"
    /\ max_width = 2
    /\ Len(tab_chars[0]) = 9
    /\ Len(output_lines) = 25
    /\ assigned[3] # <<>>

\* an empty pitch sequence was rendered
C8_WitnessEmpty == pc = "done" /\ pitches = <<>> /\ max_width > 0

(* C9: after step i (0-based) all four buffers have length (i + 1) *         *)
(* spacing, whatever the step was; after the last step the common length is  *)
(* spacing * (number of steps).                                              *)
C9_BuffersGrowTogether ==
    /\ \A s \in 0..3 : Len(tab_chars[s]) = i * 3
    /\ (pc # "build") => \A s \in 0..3 : Len(tab_chars[s]) = 3 * Len(pitches)

\* a none step, a one-digit fret and a two-digit fret have been processed
C9_Witness ==
    /\ i = 3
    /\ \E k \in 1..3 : pitches[k] = PyNone
    /\ \E k \in 1..3 : assigned[k] # <<>> /\ assigned[k][2] < 10
    /\ \E k \in 1..3 : assigned[k] # <<>> /\ assigned[k][2] >= 10

\* an unmappable step followed by two assigned steps has been processed
C9_WitnessUnmappable ==
    /\ i = 3
    /\ pitches[1] = Num(78)
    /\ assigned[1] = <<>>
    /\ assigned[2] # <<>>

(* C10: step i changes only the columns [i * spacing, (i + 1) * spacing):    *)
(* the columns written before stay as they were in all four buffers; in step *)
(* i's slot at most one buffer holds a fret token (digits left-justified,    *)
(* padded with '-') and the others hold "---"; for none all four hold "---". *)
C10_StepWritesOnlyItsSlot ==
    [][ /\ \A s \in 0..3 : PySlice(tab_chars'[s], 0, Len(tab_chars[s])) = tab_chars[s]
        /\ (i' = i + 1) =>
              LET slot == [s \in 0..3 |-> PySliceFrom(tab_chars'[s], i * 3)]
                  held == {s \in 0..3 : slot[s] # Dashes}
              IN /\ Cardinality(held) <= 1
                 /\ \A s \in held : \E f \in 0..24 : slot[s] = TokenOf(f)
                 /\ \A s \in held : assigned'[i + 1] = <<s, ReadDigits(slot[s], 0)>>
                 /\ assigned'[i + 1] # <<>> => held # {}
                 /\ pitches[i + 1] = PyNone => held = {}
      ]_vars

\* a second token was written after a first one, on the same string
C10_Witness ==
    /\ i >= 2
    /\ assigned[1] # <<>>
    /\ assigned[2] # <<>>
    /\ assigned[1][1] = assigned[2][1]
    /\ assigned[2][2] >= 10

=============================================================================
